---- MODULE Spec2Model ----
(***************************************************************************)
(* Model of github-action-analyzer: the analysis pipeline of               *)
(* internal/analyzer (Analyzer.Analyze and its stages), the GitHub client   *)
(* retry loop (Client.GetWorkflowRuns) and the entry point cmd/analyzer.    *)
(*                                                                         *)
(* Go strings are TLA+ strings; time.Duration values that are compared     *)
(* with the slow-step threshold are counted in minutes, and the timeout    *)
(* of Analyze is kept as a 64-bit two's-complement number (eight base-256  *)
(* limbs, least significant first) because its multiplication can wrap.    *)
(***************************************************************************)
EXTENDS Integers, Sequences, FiniteSets, TLC

(***************************************************************************)
(* Strings (package strings)                                               *)
(***************************************************************************)

\* strings.HasPrefix
HasPrefix(s, p) == Len(p) <= Len(s) /\ SubSeq(s, 1, Len(p)) = p

\* strings.TrimPrefix
TrimPrefix(s, p) == IF HasPrefix(s, p) THEN SubSeq(s, Len(p) + 1, Len(s)) ELSE s

\* strings.Contains
Contains(s, sub) ==
    \E i \in 1..(Len(s) - Len(sub) + 1) : SubSeq(s, i, i + Len(sub) - 1) = sub

\* the positions at which sub occurs in s
Occurrences(s, sub) ==
    { i \in 1..(Len(s) - Len(sub) + 1) : SubSeq(s, i, i + Len(sub) - 1) = sub }

\* strings.Index, 1-based; 0 when sub does not occur
Index(s, sub) ==
    LET occ == Occurrences(s, sub)
    IN  IF occ = {} THEN 0 ELSE CHOOSE i \in occ : \A j \in occ : i <= j

\* strings.Count for a non-empty sub: non-overlapping occurrences
RECURSIVE Count(_, _)
Count(s, sub) ==
    LET i == Index(s, sub)
    IN  IF i = 0 THEN 0 ELSE 1 + Count(SubSeq(s, i + Len(sub), Len(s)), sub)

\* strings.Split for a non-empty sep: always at least one element
RECURSIVE Split(_, _)
Split(s, sep) ==
    LET i == Index(s, sep)
    IN  IF i = 0 THEN << s >>
        ELSE << SubSeq(s, 1, i - 1) >> \o Split(SubSeq(s, i + Len(sep), Len(s)), sep)

\* strings.Replace(s, "%s", v, 1): what fmt.Sprintf does to a template with
\* one %s verb and one string operand
SubstFirst(s, verb, v) ==
    LET i == Index(s, verb)
    IN  IF i = 0 THEN s
        ELSE SubSeq(s, 1, i - 1) \o v \o SubSeq(s, i + Len(verb), Len(s))

(***************************************************************************)
(* strconv.Atoi on the decimal strings of at most nine digits              *)
(***************************************************************************)

Digits == << "0", "1", "2", "3", "4", "5", "6", "7", "8", "9" >>

IsDigit(c) == \E d \in 1..10 : Digits[d] = c

DigitVal(c) == (CHOOSE d \in 1..10 : Digits[d] = c) - 1

RECURSIVE DecimalVal(_)
DecimalVal(s) ==
    IF s = "" THEN 0
    ELSE 10 * DecimalVal(SubSeq(s, 1, Len(s) - 1)) + DigitVal(SubSeq(s, Len(s), Len(s)))

AllDigits(s) == s # "" /\ \A i \in 1..Len(s) : IsDigit(SubSeq(s, i, i))

\* [ok, val]: an optional sign, then one or more digits
Atoi(s) ==
    LET body == IF HasPrefix(s, "+") \/ HasPrefix(s, "-")
                THEN SubSeq(s, 2, Len(s)) ELSE s
    IN  IF AllDigits(body)
        THEN [ok |-> TRUE,
              val |-> IF HasPrefix(s, "-") THEN 0 - DecimalVal(body) ELSE DecimalVal(body)]
        ELSE [ok |-> FALSE, val |-> 0]

(***************************************************************************)
(* More of package strings                                                 *)
(***************************************************************************)

\* strings.ReplaceAll for a non-empty old
RECURSIVE ReplaceAll(_, _, _)
ReplaceAll(s, old, new) ==
    LET i == Index(s, old)
    IN  IF i = 0 THEN s
        ELSE SubSeq(s, 1, i - 1) \o new
                \o ReplaceAll(SubSeq(s, i + Len(old), Len(s)), old, new)

UpperLetters == "ABCDEFGHIJKLMNOPQRSTUVWXYZ"

LowerLetters == "abcdefghijklmnopqrstuvwxyz"

LowerChar(c) ==
    IF \E i \in 1..Len(UpperLetters) : SubSeq(UpperLetters, i, i) = c
    THEN LET i == CHOOSE j \in 1..Len(UpperLetters) : SubSeq(UpperLetters, j, j) = c
         IN  SubSeq(LowerLetters, i, i)
    ELSE c

\* strings.ToLower on ASCII text
RECURSIVE ToLower(_)
ToLower(s) ==
    IF s = "" THEN ""
    ELSE IF Len(s) = 1 THEN LowerChar(s)
    ELSE ToLower(SubSeq(s, 1, Len(s) \div 2)) \o ToLower(SubSeq(s, Len(s) \div 2 + 1, Len(s)))

\* strconv.Itoa for n >= 0
RECURSIVE Itoa(_)
Itoa(n) == IF n < 10 THEN Digits[n + 1] ELSE Itoa(n \div 10) \o Digits[(n % 10) + 1]

\* time.Duration.String of a non-negative whole number of minutes
DurationString(m) ==
    IF m = 0 THEN "0s"
    ELSE (IF m >= 60 THEN Itoa(m \div 60) \o "h" ELSE "") \o Itoa(m % 60) \o "m0s"

(***************************************************************************)
(* int64 arithmetic of time.Duration: eight base-256 limbs, least          *)
(* significant first, two's complement                                     *)
(***************************************************************************)

RECURSIVE LimbsOf(_, _)
LimbsOf(n, k) == IF k = 0 THEN << >> ELSE << n % 256 >> \o LimbsOf(n \div 256, k - 1)

Limb(a, i) == IF i \in 1..Len(a) THEN a[i] ELSE 0

RECURSIVE ColumnSum(_, _, _, _)
ColumnSum(a, b, k, i) ==
    IF i > k THEN 0 ELSE Limb(a, i) * Limb(b, k + 1 - i) + ColumnSum(a, b, k, i + 1)

\* the low `width` limbs of a * b
RECURSIVE MulLimbs(_, _, _, _, _)
MulLimbs(a, b, k, carry, width) ==
    IF k > width THEN << >>
    ELSE LET t == ColumnSum(a, b, k, 1) + carry
         IN  << t % 256 >> \o MulLimbs(a, b, k + 1, t \div 256, width)

\* time.Minute = 60 * 10^9 ns = 0x0DF8475800
Minute == << 0, 88, 71, 248, 13, 0, 0, 0 >>

\* time.Duration(t) * time.Minute: the product is kept modulo 2^64 and read as signed
DurationMinutes(t) == MulLimbs(LimbsOf(t, 8), Minute, 1, 0, 8)

DurationIsNegative(d) == d[8] >= 128

DurationIsZero(d) == \A i \in 1..8 : d[i] = 0

\* the default of Analyze, in minutes
DefaultTimeoutMinutes == 60

\* Analyze, the timeout read from the environment variable TIMEOUT
ParseTimeout(timeoutStr) ==
    LET t == Atoi(timeoutStr)
    IN  IF t.ok /\ t.val > 0
        THEN DurationMinutes(t.val)
        ELSE DurationMinutes(DefaultTimeoutMinutes)

(***************************************************************************)
(* The static tables of package analyzer                                   *)
(***************************************************************************)

cacheStrategies ==
    [go |-> <<
        [Path |-> "~/.cache/go-build",
         Description |-> "Cache Go build artifacts and modules",
         Impact |-> "Can reduce build time and dependency download time significantly",
         Example |->
               "      - name: Set up Go\n"
            \o "        uses: actions/setup-go@v5\n"
            \o "        with:\n"
            \o "          go-version: '%s'\n"
            \o "          cache: true  # This enables Go build cache\n"
            \o "\n"
            \o "      - uses: actions/cache@v4\n"
            \o "        with:\n"
            \o "          path: |\n"
            \o "            ~/.cache/go-build\n"
            \o "            ~/go/pkg/mod\n"
            \o "          key: ${{ runner.os }}-go-${{ hashFiles('**/go.sum') }}\n"
            \o "          restore-keys: |\n"
            \o "            ${{ runner.os }}-go-"
        ]
     >>,
     node |-> <<
        [Path |-> "~/.npm",
         Description |-> "Cache npm dependencies",
         Impact |-> "Can reduce npm install time by up to 50%",
         Example |->
               "      - name: Get npm cache directory\n"
            \o "        id: npm-cache-dir\n"
            \o "        shell: bash\n"
            \o "        run: echo \"dir=$(npm config get cache)\" >> ${GITHUB_OUTPUT}\n"
            \o "\n"
            \o "      - name: Setup Node.js\n"
            \o "        uses: actions/setup-node@v4\n"
            \o "        with:\n"
            \o "          node-version: '%s'\n"
            \o "          cache: 'npm'  # This enables npm cache\n"
            \o "\n"
            \o "      - uses: actions/cache@v4\n"
            \o "        id: npm-cache\n"
            \o "        with:\n"
            \o "          path: ${{ steps.npm-cache-dir.outputs.dir }}\n"
            \o "          key: ${{ runner.os }}-node-${{ hashFiles('**/package-lock.json') }}\n"
            \o "          restore-keys: |\n"
            \o "            ${{ runner.os }}-node-"
        ],
        [Path |-> "node_modules",
         Description |-> "Cache node_modules directory",
         Impact |-> "Can significantly reduce installation time for large projects",
         Example |->
               "      - uses: actions/cache@v4\n"
            \o "        with:\n"
            \o "          path: '**/node_modules'\n"
            \o "          key: ${{ runner.os }}-modules-${{ hashFiles('**/package-lock.json') }}"
        ]
     >>,
     python |-> <<
        [Path |-> "~/.cache/pip",
         Description |-> "Cache pip dependencies",
         Impact |-> "Can reduce pip install time significantly",
         Example |->
               "      - name: Set up Python\n"
            \o "        id: setup-python\n"
            \o "        uses: actions/setup-python@v5\n"
            \o "        with:\n"
            \o "          python-version: '%s'\n"
            \o "          cache: 'pip'\n"
            \o "          cache-dependency-path: |\n"
            \o "            **/requirements.txt\n"
            \o "            **/requirements-dev.txt\n"
            \o "\n"
            \o "      - uses: actions/cache@v4\n"
            \o "        with:\n"
            \o "          path: |\n"
            \o "            ~/.cache/pip\n"
            \o "            ~/.local/share/virtualenvs\n"
            \o "          key: ${{ runner.os }}-python-${{ hashFiles('**/requirements.txt') }}\n"
            \o "          restore-keys: |\n"
            \o "            ${{ runner.os }}-python-"
        ]
     >>,
     java |-> <<
        [Path |-> "~/.m2/repository",
         Description |-> "Cache Maven dependencies",
         Impact |-> "Can significantly reduce build time by caching Maven dependencies",
         Example |->
               "      - name: Set up Java\n"
            \o "        uses: actions/setup-java@v4\n"
            \o "        with:\n"
            \o "          java-version: '%s'\n"
            \o "          distribution: 'temurin'\n"
            \o "          cache: 'maven'\n"
            \o "\n"
            \o "      - uses: actions/cache@v4\n"
            \o "        with:\n"
            \o "          path: ~/.m2/repository\n"
            \o "          key: ${{ runner.os }}-maven-${{ hashFiles('**/pom.xml') }}\n"
            \o "          restore-keys: |\n"
            \o "            ${{ runner.os }}-maven-"
        ],
        [Path |-> "~/.gradle",
         Description |-> "Cache Gradle dependencies and wrapper",
         Impact |-> "Can significantly reduce build time by caching Gradle dependencies",
         Example |->
               "      - name: Set up Java\n"
            \o "        uses: actions/setup-java@v4\n"
            \o "        with:\n"
            \o "          java-version: '%s'\n"
            \o "          distribution: 'temurin'\n"
            \o "          cache: 'gradle'\n"
            \o "\n"
            \o "      - uses: actions/cache@v4\n"
            \o "        with:\n"
            \o "          path: |\n"
            \o "            ~/.gradle/caches\n"
            \o "            ~/.gradle/wrapper\n"
            \o "          key: ${{ runner.os }}-gradle-${{ hashFiles('**/*.gradle*', '**/gradle-wrapper.properties') }}\n"
            \o "          restore-keys: |\n"
            \o "            ${{ runner.os }}-gradle-"
        ]
     >>,
     ruby |-> <<
        [Path |-> "vendor/bundle",
         Description |-> "Cache Ruby gems using Bundler",
         Impact |-> "Can reduce gem installation time significantly",
         Example |->
               "      - name: Set up Ruby\n"
            \o "        uses: ruby/setup-ruby@v1\n"
            \o "        with:\n"
            \o "          ruby-version: '%s'\n"
            \o "          bundler-cache: true  # This handles caching automatically"
        ]
     >>,
     rust |-> <<
        [Path |-> "~/.cargo",
         Description |-> "Cache Rust dependencies and build artifacts",
         Impact |-> "Can significantly reduce build time by caching Cargo dependencies and compiled artifacts",
         Example |->
               "      - name: Set up Rust\n"
            \o "        uses: dtolnay/rust-toolchain@stable\n"
            \o "        with:\n"
            \o "          toolchain: '%s'\n"
            \o "\n"
            \o "      - uses: actions/cache@v4\n"
            \o "        with:\n"
            \o "          path: |\n"
            \o "            ~/.cargo/bin/\n"
            \o "            ~/.cargo/registry/index/\n"
            \o "            ~/.cargo/registry/cache/\n"
            \o "            ~/.cargo/git/db/\n"
            \o "            target/\n"
            \o "          key: ${{ runner.os }}-cargo-${{ hashFiles('**/Cargo.lock') }}"
        ]
     >>,
     dotnet |-> <<
        [Path |-> ".dotnet",
         Description |-> "Cache .NET SDK installation",
         Impact |-> "Can significantly reduce setup time by caching the .NET SDK",
         Example |->
               "      - name: Cache .NET SDK\n"
            \o "        uses: actions/cache@v4\n"
            \o "        with:\n"
            \o "          path: .\\.dotnet\n"
            \o "          key: ${{ runner.os }}-dotnet-${{ hashFiles('**/*.csproj') }}\n"
            \o "          restore-keys: |\n"
            \o "            ${{ runner.os }}-dotnet-\n"
            \o "\n"
            \o "      - name: Setup .NET\n"
            \o "        uses: actions/setup-dotnet@v4\n"
            \o "        with:\n"
            \o "          dotnet-version: '%s'\n"
            \o "          cache: true\n"
            \o "\n"
            \o "      - name: Cache NuGet packages\n"
            \o "        uses: actions/cache@v4\n"
            \o "        with:\n"
            \o "          path: ~/.nuget/packages\n"
            \o "          key: ${{ runner.os }}-nuget-${{ hashFiles('**/*.csproj') }}\n"
            \o "          restore-keys: |\n"
            \o "            ${{ runner.os }}-nuget-"
        ]
     >> ]

languagePatterns ==
    [go     |-> << "go build", "go test", "setup-go", "actions/setup-go",
                   "go-version", "uses: actions/setup-go" >>,
     node   |-> << "npm", "yarn", "setup-node", "actions/setup-node",
                   "package.json", "node-version", "uses: actions/setup-node" >>,
     python |-> << "pip", "python", "setup-python", "actions/setup-python",
                   "requirements.txt", "python-version", "uses: actions/setup-python" >>,
     java   |-> << "mvn", "maven", "gradle", "setup-java", "actions/setup-java",
                   "pom.xml", "build.gradle", "java-version", "uses: actions/setup-java" >>,
     ruby   |-> << "bundle", "gem", "setup-ruby", "ruby/setup-ruby", "Gemfile",
                   "ruby-version", "uses: ruby/setup-ruby" >>,
     rust   |-> << "cargo", "rustc", "rust-toolchain", "dtolnay/rust-toolchain",
                   "Cargo.toml", "uses: dtolnay/rust-toolchain" >>,
     dotnet |-> << "dotnet", "setup-dotnet", "actions/setup-dotnet", ".csproj",
                   ".sln", "nuget", "dotnet-version", "uses: actions/setup-dotnet" >> ]

(***************************************************************************)
(* The pure stages                                                         *)
(***************************************************************************)

\* 5 * time.Minute, the slow-step threshold, in minutes
SlowStepMinutes == 5

Nil == "nil"

RECURSIVE StepsLoop(_, _, _, _, _)
StepsLoop(lines, i, currentStep, steps, elapsed) ==
    IF i > Len(lines) THEN steps
    ELSE IF Contains(lines[i], "##[group]")
         THEN LET duration == elapsed[Len(steps) + 1]
                  closed == IF currentStep # ""
                            THEN Append(steps, [Name |-> currentStep,
                                                ExecutionTime |-> duration,
                                                IsSlowStep |-> duration > SlowStepMinutes])
                            ELSE steps
              IN  StepsLoop(lines, i + 1, TrimPrefix(lines[i], "##[group]"), closed, elapsed)
         ELSE StepsLoop(lines, i + 1, currentStep, steps, elapsed)

RECURSIVE SumExecutionTime(_)
SumExecutionTime(steps) ==
    IF steps = << >> THEN 0
    ELSE steps[1].ExecutionTime + SumExecutionTime(Tail(steps))

analyzeStepsClosingLast(logs, elapsed) ==
    LET lines == Split(logs, "\n")
        steps == StepsLoop(lines, 1, "", << >>, elapsed)
        markers == { i \in 1..Len(lines) : Contains(lines[i], "##[group]") }
        last == IF markers = {} THEN ""
                ELSE TrimPrefix(lines[CHOOSE i \in markers : \A j \in markers : j <= i],
                                "##[group]")
        closed == IF last # ""
                  THEN Append(steps, [Name |-> last, ExecutionTime |-> 0, IsSlowStep |-> FALSE])
                  ELSE steps
    IN  [steps |-> closed, totalDuration |-> SumExecutionTime(closed)]

\* analyzeSteps; elapsed[k] is what time.Since(stepStartTime) reads when the
\* k-th recorded step is closed
analyzeSteps(logs, elapsed) ==
    LET steps == StepsLoop(Split(logs, "\n"), 1, "", << >>, elapsed)
    IN  [steps |-> steps, totalDuration |-> SumExecutionTime(steps)]

\* the number of marker lines of a log: no more steps than that are closed
RECURSIVE MarkerLines(_)
MarkerLines(lines) ==
    IF lines = << >> THEN 0
    ELSE (IF Contains(lines[1], "##[group]") THEN 1 ELSE 0) + MarkerLines(Tail(lines))

analyzeDockerfile(content) ==
    (IF ~Contains(content, "FROM") \/ Count(content, "FROM") < 2
     THEN << [Issue |-> "No multi-stage build detected",
              Suggestion |-> "Consider using multi-stage builds to reduce final image size",
              Improvement |-> "Can reduce image size by up to 50%"] >>
     ELSE << >>)
    \o
    (IF ~Contains(content, "COPY --from")
     THEN << [Issue |-> "No layer caching strategy detected",
              Suggestion |-> "Implement proper layer caching by copying only necessary files",
              Improvement |-> "Can improve build time significantly"] >>
     ELSE << >>)

\* unique: the first occurrence of each entry, in order
RECURSIVE unique(_)
unique(slice) ==
    IF slice = << >> THEN << >>
    ELSE LET init == unique(SubSeq(slice, 1, Len(slice) - 1))
             last == slice[Len(slice)]
         IN  IF \E i \in 1..Len(init) : init[i] = last THEN init ELSE Append(init, last)

LanguageMatches(lowerContent, lang) ==
    \E i \in 1..Len(languagePatterns[lang]) :
        Contains(lowerContent, ToLower(languagePatterns[lang][i]))

RECURSIVE DetectLoop(_, _)
DetectLoop(lowerContent, order) ==
    IF order = << >> THEN << >>
    ELSE (IF LanguageMatches(lowerContent, order[1]) THEN << order[1] >> ELSE << >>)
            \o DetectLoop(lowerContent, Tail(order))

\* a detection that compares the text as written
detectLanguagesCaseSensitive(content, order) == unique(DetectLoop(content, order))

\* detectLanguagesFromWorkflow; order is the order in which the range over
\* the map languagePatterns visits its keys
detectLanguagesFromWorkflow(content, order) ==
    LET lowerContent == ToLower(content)
    IN  unique(DetectLoop(lowerContent, order))

\* parts[0] + "." + parts[1] when the version has two parts, else the fallback
MajorMinor(version, fallback) ==
    LET parts == Split(version, ".")
    IN  IF Len(parts) >= 2 THEN parts[1] \o "." \o parts[2] ELSE fallback

\* a lookup error that is returned to the caller
LookupFailedPropagated(fallback) == [version |-> "", err |-> "failed to get latest release"]

\* if err != nil { return fallback, nil }
LookupFailed(fallback) == [version |-> fallback, err |-> "none"]

\* a default case that answers with a version
UnsupportedLanguageDefaulted(lang) == [version |-> "latest", err |-> "none"]

\* default: return "", fmt.Errorf("unsupported language: %s", lang)
UnsupportedLanguage(lang) == [version |-> "", err |-> "unsupported language"]

\* GetLatestVersion; release is what GetLatestRelease returned for the
\* language's repository: [ok, tag]
GetLatestVersion(lang, release) ==
    CASE lang = "go" ->
            IF ~release.ok THEN LookupFailed("1.24")
            ELSE [version |-> MajorMinor(TrimPrefix(release.tag, "go"), "1.24"),
                  err |-> "none"]
      [] lang = "node" ->
            IF ~release.ok THEN LookupFailed("20.11")
            ELSE [version |->
                    LET version == TrimPrefix(release.tag, "v")
                        parts == Split(version, ".")
                        majorVer == Atoi(parts[1]).val
                    IN  IF Contains(version, "nightly") \/ Contains(version, "test")
                        THEN "20.11"
                        ELSE IF Len(parts) >= 2
                             THEN IF majorVer > 20 THEN "20.11"
                                  ELSE parts[1] \o "." \o parts[2]
                        ELSE "20.11",
                  err |-> "none"]
      [] lang = "python" ->
            IF ~release.ok THEN LookupFailed("3.12")
            ELSE [version |->
                    LET version == TrimPrefix(release.tag, "v")
                    IN  IF Contains(version, "a") \/ Contains(version, "b")
                                \/ Contains(version, "rc")
                        THEN "3.12"
                        ELSE MajorMinor(version, "3.12"),
                  err |-> "none"]
      [] lang = "java" ->
            IF ~release.ok THEN LookupFailed("17")
            ELSE [version |-> Split(TrimPrefix(release.tag, "jdk-"), ".")[1],
                  err |-> "none"]
      [] lang = "ruby" ->
            IF ~release.ok THEN LookupFailed("3.2")
            ELSE [version |-> MajorMinor(TrimPrefix(release.tag, "v"), "3.2"),
                  err |-> "none"]
      [] lang = "rust" -> [version |-> "stable", err |-> "none"]
      [] lang = "dotnet" ->
            IF ~release.ok THEN LookupFailed("7.0")
            ELSE [version |-> MajorMinor(TrimPrefix(release.tag, "v"), "7.0"),
                  err |-> "none"]
      [] OTHER -> UnsupportedLanguage(lang)

\* does GetLatestVersion call GetLatestRelease for this language?
UsesReleaseLookup(lang) == lang \in {"go", "node", "python", "java", "ruby", "dotnet"}

\* analyzeCaching, the inner loop over one language's strategies
RECURSIVE UpdatedStrategies(_, _)
UpdatedStrategies(strategies, latestVersion) ==
    IF strategies = << >> THEN << >>
    ELSE << [strategies[1] EXCEPT
                !.Example = IF Contains(strategies[1].Example, "%s")
                            THEN SubstFirst(strategies[1].Example, "%s", latestVersion)
                            ELSE strategies[1].Example] >>
            \o UpdatedStrategies(Tail(strategies), latestVersion)

StrategiesFor(lang) ==
    IF lang \in DOMAIN cacheStrategies THEN cacheStrategies[lang] ELSE << >>

\* analyzeWorkflowStructure: the WorkflowAnalysis it stores (it returns nil)
analyzeWorkflowStructure(raw) ==
    LET content == ReplaceAll(raw, "${", "\\${")
    IN  [ParallelJobs |-> Contains(content, "needs:"),
         MatrixStrategy |-> FALSE,
         Recommendations |->
            (IF ~Contains(content, "strategy:") \/ ~Contains(content, "matrix:")
             THEN << "Consider using matrix strategy for parallel testing/building across different versions/platforms" >>
             ELSE << >>)
            \o (IF Contains(content, "needs:")
                THEN << "Review job dependencies to ensure optimal parallel execution" >>
                ELSE << >>),
         RunnerOptimizations |->
            IF Contains(content, "runs-on: ubuntu-latest")
            THEN << "Consider using specific Ubuntu version instead of 'latest' for better reproducibility" >>
            ELSE << >>,
         SecurityTips |->
            (IF ~Contains(content, "permissions:")
             THEN << "Add explicit permissions to improve workflow security" >>
             ELSE << >>)
            \o (IF ~Contains(content, "environment:")
                THEN << "Consider using environments for better secret management and deployment control" >>
                ELSE << >>)]

\* generateCostSavingTips
generateCostSavingTips(totalExecutionTime) ==
    << "Consider using GitHub Actions cache to speed up dependencies installation",
       "Use matrix builds for parallel execution",
       "Implement proper Docker layer caching",
       "Total execution time: " \o DurationString(totalExecutionTime)
            \o " - Consider optimizing long-running steps" >>

\* the workflow path of analyzeCaching and of Analyze
WorkflowPath(workflowFile) ==
    IF HasPrefix(workflowFile, ".github/workflows/") THEN workflowFile
    ELSE ".github/workflows/" \o workflowFile

\* PerformanceReport.calculateMetrics: the Metrics it stores
RECURSIVE MaxExecutionTime(_)
MaxExecutionTime(steps) ==
    IF steps = << >> THEN 0
    ELSE LET rest == MaxExecutionTime(Tail(steps))
         IN  IF steps[1].ExecutionTime > rest THEN steps[1].ExecutionTime ELSE rest

RECURSIVE FailedCount(_)
FailedCount(steps) ==
    IF steps = << >> THEN 0
    ELSE (IF Contains(ToLower(steps[1].Name), "failed") THEN 1 ELSE 0)
            + FailedCount(Tail(steps))

\* a count of the failed steps that compares the names as written
calculateMetricsCaseSensitive(slowSteps) ==
    IF Len(slowSteps) = 0
    THEN [AverageStepDuration |-> 0, MaxStepDuration |-> 0,
          TotalSteps |-> 0, FailedSteps |-> 0]
    ELSE [AverageStepDuration |-> SumExecutionTime(slowSteps) \div Len(slowSteps),
          MaxStepDuration |-> MaxExecutionTime(slowSteps),
          TotalSteps |-> Len(slowSteps),
          FailedSteps |->
              Cardinality({ i \in 1..Len(slowSteps) : Contains(slowSteps[i].Name, "failed") })]

calculateMetrics(slowSteps) ==
    IF Len(slowSteps) = 0
    THEN [AverageStepDuration |-> 0, MaxStepDuration |-> 0,
          TotalSteps |-> 0, FailedSteps |-> 0]
    ELSE [AverageStepDuration |-> SumExecutionTime(slowSteps) \div Len(slowSteps),
          MaxStepDuration |-> MaxExecutionTime(slowSteps),
          TotalSteps |-> Len(slowSteps),
          FailedSteps |-> FailedCount(slowSteps)]

\* PerformanceReport.setGitHubOutputs: the loop that rewrites the examples
RECURSIVE EscapeExamples(_)
EscapeExamples(recs) ==
    IF recs = << >> THEN << >>
    ELSE << [recs[1] EXCEPT !.Example = ReplaceAll(@, "${{", "${'{'}{")] >>
            \o EscapeExamples(Tail(recs))

\* PerformanceReport.Output: what it leaves in the report
Output(r) ==
    [r EXCEPT !.Metrics = calculateMetrics(r.SlowSteps),
              !.CacheRecommendations = EscapeExamples(r.CacheRecommendations)]

(***************************************************************************)
(* Bounds and the inputs the environment supplies                          *)
(***************************************************************************)

\* the most workflow runs one successful listing returns
MaxRuns == 1

\* values of the environment variable TIMEOUT: unset, not numbers, zero,
\* negative, positive, the last whose product with time.Minute fits in int64
\* and the one after it
TimeoutEnvs ==
    { "", "abc", "1e3", " 5", "0", "-5", "2", "+3", "007", "60",
      "153722867", "153722868", "999999999" }

\* the values the whole program is run with
PipelineTimeoutEnvs == { "", "2", "153722868" }

\* CreatedAt and UpdatedAt of a run, in minutes: << >> is a nil timestamp, << n >>
\* a set one; the runs GitHub lists carry both
RunTimes == { [CreatedAt |-> << 0 >>, UpdatedAt |-> << 7 >>] }

RunLists ==
    UNION { [1..n -> RunTimes] : n \in 0..MaxRuns }

\* the concatenated job logs GetWorkflowJobLogs returns
JobLogs == { "", "##[group]Build failed\ncompiling\n##[group]Post" }

\* readings of time.Since in analyzeSteps, in minutes
ElapsedChoices == { 0, 6 }

DockerFiles == { "FROM alpine\nRUN apk add x" }

WorkflowFiles ==
    { "jobs:\n  build:\n    runs-on: ubuntu-latest\n    steps:\n"
        \o "      - uses: actions/setup-go@v5\n      - run: Cargo test" }

\* two iteration orders of the map languagePatterns, which between them put
\* every pair of languages in both relative orders
KeyOrders ==
    { << "go", "node", "python", "java", "ruby", "rust", "dotnet" >>,
      << "dotnet", "rust", "ruby", "java", "python", "node", "go" >> }

\* what GetLatestRelease may return for the repository of a language
ReleaseOutcomes(lang) ==
    IF ~UsesReleaseLookup(lang) THEN { [ok |-> FALSE, tag |-> ""] }
    ELSE { [ok |-> FALSE, tag |-> ""],
           [ok |-> TRUE, tag |-> IF lang = "go" THEN "go1.25.3" ELSE "v18.19.1"] }

\* a call of the go-github client with ctx: it fails once ctx is done
CallOutcomes(cerr) == IF cerr # "none" THEN { "transport" } ELSE { "ok", "transport" }

\* Client.GetFileContent: the file, a 404, or a transport failure
FileOutcomes(cerr) ==
    IF cerr # "none" THEN { "transport" } ELSE { "ok", "absent", "transport" }

(***************************************************************************)
(* State                                                                   *)
(***************************************************************************)

VARIABLES
    timeoutEnv,     \* os.Getenv("TIMEOUT")
    mainPc,         \* main: "start", "analyzing", "exited"
    mainOut,        \* what main did last: "none", "cancelled", "failed", "output", "output failed"
    signalled,      \* main's ctx is cancelled (the signal goroutine ran cancel)
    callerPc,       \* Analyze: "idle", "select", "parked", "woken", "returned"
    wokenBy,        \* the case of the select that woke the parked caller
    timeout,        \* Analyze's timeout, << >> before it is parsed
    ctxErr,         \* ctx.Err() of Analyze's ctx: "none", "DeadlineExceeded", "Canceled"
    errCh,          \* the buffered channel errCh
    result,         \* what Analyze returned: [report, err]
    workerPc,       \* the goroutine of Analyze
    workerErr,      \* its variable err
    report,         \* the PerformanceReport both share
    retries,        \* GetWorkflowRuns: the loop variable
    allRuns,        \* GetWorkflowRuns: allRuns
    runs,           \* analyzeWorkflowRuns: runs
    runIdx,         \* analyzeWorkflowRuns: position of the range over runs
    totalTime,      \* analyzeWorkflowRuns: totalTime
    detectedLangs,  \* analyzeCaching: detectedLangs
    langIdx,        \* analyzeCaching: position of the range over detectedLangs
    hist,           \* what happened so far (read by the properties only)
    call,           \* one call of a function on its own: [fn, in, out, done]
    catalog         \* the package variable cacheStrategies

vars == << timeoutEnv, mainPc, mainOut, signalled, callerPc, wokenBy, timeout, ctxErr,
           errCh, result, workerPc, workerErr, report, retries, allRuns, runs, runIdx,
           totalTime, detectedLangs, langIdx, hist, call, catalog >>

mainVars == << timeoutEnv, mainPc, mainOut, signalled, call, catalog >>

callerVars == << callerPc, wokenBy, timeout, ctxErr, result >>

runsVars == << retries, allRuns, runs, runIdx, totalTime >>

cachingVars == << detectedLangs, langIdx >>

\* make(chan error, 1)
ErrChCap == 1

\* for retries := 3
InitialRetries == 3

\* time.Sleep(time.Second * 2), in seconds
SleepSeconds == 2

NewReport ==
    [Repository |-> "owner/repo",
     WorkflowFile |-> "ci.yml",
     TotalExecutionTime |-> 0,
     SlowSteps |-> << >>,
     CacheRecommendations |-> << >>,
     DockerOptimizations |-> << >>,
     CostSavingTips |-> << >>,
     WorkflowAnalysis |-> << >>,    \* a nil pointer; << a >> points to a
     Metrics |-> [AverageStepDuration |-> 0, MaxStepDuration |-> 0,
                  TotalSteps |-> 0, FailedSteps |-> 0]]

NewHist ==
    [attempts |-> 0,            \* this call of GetWorkflowRuns: its list attempts,
     okAttempts |-> 0,          \*   those that succeeded,
     attemptsAfterOk |-> 0,     \*   those issued after one had succeeded,
     sleeps |-> << >>,          \*   the delays slept, in seconds
     listErr |-> "unset",       \* the error GetWorkflowRuns returned
     listAllFailed |-> FALSE,   \* every list attempt of the call failed
     logFetches |-> 0,          \* calls of GetWorkflowJobLogs
     logFetch |-> "none",       \* outcome of the last of them
     dockerFetch |-> "none",    \* outcome of the Dockerfile fetch
     cachingFetch |-> "none",   \* outcome of analyzeCaching's workflow fetch
     structureFetch |-> "none", \* outcome of Analyze's workflow fetch
     started |-> << >>,         \* the stages in the order they were entered
     returned |-> << >>,        \* the stages in the order they returned
     stageErrs |-> { },         \* the stages that returned an error
     ctxCause |-> "none",       \* why ctx is done: "deadline", "signal", "return"
     doneBeforeSend |-> FALSE,  \* ctx was done before the worker sent its result
     returnedVia |-> "none",    \* the select case Analyze returned through
     sends |-> 0]               \* sends on errCh

\* no function is called on its own
NoCall == [fn |-> "none", in |-> << >>, out |-> << >>, done |-> FALSE]

Init ==
    /\ timeoutEnv \in PipelineTimeoutEnvs
    /\ mainPc = "start"
    /\ mainOut = "none"
    /\ signalled = FALSE
    /\ callerPc = "idle"
    /\ wokenBy = "none"
    /\ timeout = << >>
    /\ ctxErr = "none"
    /\ errCh = << >>
    /\ result = [report |-> Nil, err |-> "none"]
    /\ workerPc = "idle"
    /\ workerErr = "none"
    /\ report = NewReport
    /\ retries = 0
    /\ allRuns = << >>
    /\ runs = << >>
    /\ runIdx = 0
    /\ totalTime = 0
    /\ detectedLangs = << >>
    /\ langIdx = 0
    /\ hist = NewHist
    /\ call = NoCall
    /\ catalog = cacheStrategies

(***************************************************************************)
(* The pipeline of the goroutine in Analyze                                *)
(***************************************************************************)

FirstStage == "runs"

\* a pipeline with the cost tips generated before the structure analysis
NextStageTipsEarly(stage) ==
    CASE stage = "runs" -> "docker"
      [] stage = "docker" -> "caching"
      [] stage = "caching" -> "tips"
      [] stage = "tips" -> "structure"
      [] stage = "structure" -> "send"

NextStage(stage) ==
    CASE stage = "runs" -> "docker"
      [] stage = "docker" -> "caching"
      [] stage = "caching" -> "structure"
      [] stage = "structure" -> "tips"
      [] stage = "tips" -> "send"

\* early returns that leave the goroutine without a send
AfterStageReturningUnsent(stage, err) ==
    IF err # "none" /\ stage \in { "runs", "docker", "caching" }
    THEN "done"
    ELSE NextStage(stage)

\* a pipeline without the early returns
AfterStageIgnoringErrors(stage, err) == NextStage(stage)

\* if err = stage(...); err != nil { return }: the deferred send runs next
AfterStage(stage, err) ==
    IF err # "none" /\ stage \in { "runs", "docker", "caching" }
    THEN "send"
    ELSE NextStage(stage)

StageNames == { "runs", "docker", "caching", "structure", "tips" }

\* the history once `stage` has returned err and the next one, if any, is entered
HistReturn(h, stage, err) ==
    [h EXCEPT !.returned = Append(@, stage),
              !.stageErrs = IF err # "none" THEN @ \cup { stage } ELSE @,
              !.started = IF AfterStage(stage, err) \in StageNames
                          THEN Append(@, AfterStage(stage, err)) ELSE @]

ProcessAlive == mainPc # "exited"

(***************************************************************************)
(* Client.GetWorkflowRuns, called by analyzeWorkflowRuns                   *)
(***************************************************************************)

\* a loop without the break
ListNextPcNoBreak(outcome) == "sleep"

\* after one call of ListWorkflowRunsByFileName: break on success, else sleep
ListNextPc(outcome) == IF outcome = "ok" THEN "listed" ELSE "sleep"

\* a fetch that returns the error of its last attempt
GetWorkflowRunsReturnLastErr(all, lastErr) == [runs |-> all, err |-> lastErr]

\* return allRuns, nil
GetWorkflowRunsReturn(all, lastErr) == [runs |-> all, err |-> "none"]

\* one iteration of the retry loop, up to the result of the call
ListWorkflowRuns ==
    /\ ProcessAlive
    /\ workerPc = "runs"
    /\ retries > 0
    /\ \E outcome \in CallOutcomes(ctxErr) :
          /\ \/ /\ outcome = "ok"
                /\ \E rs \in RunLists : allRuns' = allRuns \o rs
             \/ /\ outcome # "ok"
                /\ allRuns' = allRuns
          /\ workerPc' = ListNextPc(outcome)
          /\ hist' = [hist EXCEPT
                        !.attempts = @ + 1,
                        !.okAttempts = IF outcome = "ok" THEN @ + 1 ELSE @,
                        !.attemptsAfterOk = IF hist.okAttempts > 0 THEN @ + 1 ELSE @]
    /\ UNCHANGED << mainVars, callerVars, errCh, workerErr, report, retries, runs,
                    runIdx, totalTime, cachingVars >>

\* time.Sleep(time.Second * 2); retries--; the loop test
RetrySleep ==
    /\ ProcessAlive
    /\ workerPc = "sleep"
    /\ retries' = retries - 1
    /\ workerPc' = IF retries - 1 > 0 THEN "runs" ELSE "listed"
    /\ hist' = [hist EXCEPT !.sleeps = Append(@, SleepSeconds)]
    /\ UNCHANGED << mainVars, callerVars, errCh, workerErr, report, allRuns, runs,
                    runIdx, totalTime, cachingVars >>

\* the history once the call has returned err: its counters end with it
CallReturned(h, err) ==
    [h EXCEPT !.listErr = err,
              !.listAllFailed = (h.okAttempts = 0),
              !.attempts = 0, !.okAttempts = 0, !.attemptsAfterOk = 0,
              !.sleeps = << >>]

\* GetWorkflowRuns returns; analyzeWorkflowRuns tests err and enters its loop
RunsListed ==
    /\ ProcessAlive
    /\ workerPc = "listed"
    /\ LET ret == GetWorkflowRunsReturn(allRuns,
                        IF hist.okAttempts = 0 THEN "transport" ELSE "none")
       IN  IF ret.err # "none"
           THEN /\ workerErr' = "failed to get workflow runs"
                /\ workerPc' = AfterStage("runs", "failed to get workflow runs")
                /\ hist' = HistReturn(CallReturned(hist, ret.err), "runs",
                                      "failed to get workflow runs")
                /\ UNCHANGED << runs, runIdx, totalTime >>
           ELSE /\ runs' = ret.runs
                /\ runIdx' = 1
                /\ totalTime' = 0
                /\ workerPc' = "logs"
                /\ hist' = CallReturned(hist, ret.err)
                /\ UNCHANGED workerErr
    /\ UNCHANGED << mainVars, callerVars, errCh, report, retries, allRuns, cachingVars >>

(***************************************************************************)
(* analyzeWorkflowRuns: the loop over the runs                             *)
(***************************************************************************)

\* githubRun.UpdatedAt.Sub(githubRun.CreatedAt.Time), when both are set
RunDuration(run) ==
    IF run.CreatedAt # << >> /\ run.UpdatedAt # << >>
    THEN run.UpdatedAt[1] - run.CreatedAt[1]
    ELSE 0

\* the steps appended to report.SlowSteps
RECURSIVE SlowOnes(_)
SlowOnes(steps) ==
    IF steps = << >> THEN << >>
    ELSE (IF steps[1].ExecutionTime > SlowStepMinutes THEN << steps[1] >> ELSE << >>)
            \o SlowOnes(Tail(steps))

\* one iteration of the loop: the run's duration, its logs, its steps
FetchJobLogs ==
    /\ ProcessAlive
    /\ workerPc = "logs"
    /\ runIdx <= Len(runs)
    /\ \E outcome \in CallOutcomes(ctxErr) :
          \/ /\ outcome = "ok"
             /\ \E logs \in JobLogs :
                  \E elapsed \in [1..MarkerLines(Split(logs, "\n")) -> ElapsedChoices] :
                     LET analysed == analyzeSteps(logs, elapsed)
                     IN  /\ totalTime' = totalTime + RunDuration(runs[runIdx])
                                            + analysed.totalDuration
                         /\ report' = [report EXCEPT
                                          !.SlowSteps = @ \o SlowOnes(analysed.steps)]
             /\ runIdx' = runIdx + 1
             /\ hist' = [hist EXCEPT !.logFetches = @ + 1, !.logFetch = outcome]
             /\ UNCHANGED << workerPc, workerErr >>
          \/ /\ outcome # "ok"
             /\ totalTime' = totalTime + RunDuration(runs[runIdx])
             /\ workerErr' = "failed to get job logs"
             /\ workerPc' = AfterStage("runs", "failed to get job logs")
             /\ hist' = HistReturn([hist EXCEPT !.logFetches = @ + 1,
                                                !.logFetch = outcome],
                                   "runs", "failed to get job logs")
             /\ UNCHANGED << report, runIdx >>
    /\ UNCHANGED << mainVars, callerVars, errCh, retries, allRuns, runs, cachingVars >>

\* the loop is over: report.TotalExecutionTime = totalTime; return nil
RunsAnalyzed ==
    /\ ProcessAlive
    /\ workerPc = "logs"
    /\ runIdx > Len(runs)
    /\ report' = [report EXCEPT !.TotalExecutionTime = totalTime]
    /\ workerErr' = "none"
    /\ workerPc' = AfterStage("runs", "none")
    /\ hist' = HistReturn(hist, "runs", "none")
    /\ UNCHANGED << mainVars, callerVars, errCh, runsVars, cachingVars >>

(***************************************************************************)
(* analyzeDockerConfigs                                                    *)
(***************************************************************************)

\* a stage that returns the error of the fetch
analyzeDockerConfigsErrPropagated(outcome) ==
    IF outcome = "ok" THEN "none" ELSE "failed to get file content"

\* if err != nil { return nil }: what the stage returns for a fetch outcome
analyzeDockerConfigsErr(outcome) == "none"

DockerStage ==
    /\ ProcessAlive
    /\ workerPc = "docker"
    /\ \E outcome \in FileOutcomes(ctxErr) :
          /\ \/ /\ outcome = "ok"
                /\ \E content \in DockerFiles :
                      report' = [report EXCEPT
                                    !.DockerOptimizations = analyzeDockerfile(content)]
             \/ /\ outcome # "ok"
                /\ report' = report
          /\ workerErr' = analyzeDockerConfigsErr(outcome)
          /\ workerPc' = AfterStage("docker", analyzeDockerConfigsErr(outcome))
          /\ hist' = HistReturn([hist EXCEPT !.dockerFetch = outcome], "docker",
                                analyzeDockerConfigsErr(outcome))
    /\ UNCHANGED << mainVars, callerVars, errCh, runsVars, cachingVars >>

(***************************************************************************)
(* analyzeCaching                                                          *)
(***************************************************************************)

\* the workflow file is fetched and the languages are detected
CachingFetch ==
    /\ ProcessAlive
    /\ workerPc = "caching"
    /\ \E outcome \in FileOutcomes(ctxErr) :
          \/ /\ outcome = "ok"
             /\ \E content \in WorkflowFiles, order \in KeyOrders :
                   detectedLangs' = detectLanguagesFromWorkflow(content, order)
             /\ langIdx' = 1
             /\ workerPc' = "versions"
             /\ hist' = [hist EXCEPT !.cachingFetch = outcome]
             /\ UNCHANGED workerErr
          \/ /\ outcome # "ok"
             /\ workerErr' = "none"
             /\ workerPc' = AfterStage("caching", "none")
             /\ hist' = HistReturn([hist EXCEPT !.cachingFetch = outcome],
                                   "caching", "none")
             /\ UNCHANGED cachingVars
    /\ UNCHANGED << mainVars, callerVars, errCh, report, runsVars >>

\* strategies, ok := cacheStrategies[lang]
Strategies(lang) == IF lang \in DOMAIN catalog THEN catalog[lang] ELSE << >>

\* a loop body that appends the template and the updated copy
VersionStepAppendingBoth(recs, lang, release) ==
    LET latest == GetLatestVersion(lang, release)
    IN  IF latest.err # "none" THEN recs
        ELSE recs \o Strategies(lang)
                  \o UpdatedStrategies(Strategies(lang), latest.version)

\* the body of the loop over detectedLangs: a language whose version does not
\* resolve is skipped, the others add their strategies
VersionStep(recs, lang, release) ==
    LET latest == GetLatestVersion(lang, release)
    IN  IF latest.err # "none" THEN recs
        ELSE recs \o UpdatedStrategies(Strategies(lang), latest.version)

\* an assignment that writes the example into the entry of the catalog
StoreExampleInPlace(strategies, i, example) == [strategies EXCEPT ![i].Example = example]

\* updatedStrategy := strategy copies the template, so the assignment to
\* updatedStrategy.Example leaves strategies[i] as it is
StoreExample(strategies, i, example) == strategies

\* the templates of one ecosystem after the range over them
RECURSIVE StrategiesAfter(_, _, _)
StrategiesAfter(strategies, i, latestVersion) ==
    IF i > Len(strategies) THEN strategies
    ELSE StrategiesAfter(
            StoreExample(strategies, i, UpdatedStrategies(strategies, latestVersion)[i].Example),
            i + 1, latestVersion)

\* cacheStrategies after the body of the loop over detectedLangs
CatalogAfterStep(strategies, lang, release) ==
    LET latest == GetLatestVersion(lang, release)
    IN  IF latest.err # "none" \/ lang \notin DOMAIN strategies THEN strategies
        ELSE [strategies EXCEPT ![lang] = StrategiesAfter(@, 1, latest.version)]

\* cacheStrategies after the loop over detectedLangs
RECURSIVE CatalogAfterLoop(_, _, _)
CatalogAfterLoop(strategies, langs, releases) ==
    IF langs = << >> THEN strategies
    ELSE CatalogAfterLoop(CatalogAfterStep(strategies, langs[1], releases[1]),
                          Tail(langs), Tail(releases))

\* the loop over detectedLangs, releases[i] being what the lookup for
\* langs[i] returns; analyzeCaching returns nil after it
RECURSIVE CachingLoop(_, _, _)
CachingLoop(langs, releases, recs) ==
    IF langs = << >> THEN [recs |-> recs, err |-> "none"]
    ELSE CachingLoop(Tail(langs), Tail(releases), VersionStep(recs, langs[1], releases[1]))

\* one iteration of the loop over detectedLangs; GetLatestVersion makes its
\* lookup with context.Background(), so ctx does not decide its outcome
ResolveVersion ==
    /\ ProcessAlive
    /\ workerPc = "versions"
    /\ langIdx <= Len(detectedLangs)
    /\ \E release \in ReleaseOutcomes(detectedLangs[langIdx]) :
          /\ report' = [report EXCEPT
                        !.CacheRecommendations =
                            VersionStep(@, detectedLangs[langIdx], release)]
          /\ catalog' = CatalogAfterStep(catalog, detectedLangs[langIdx], release)
    /\ langIdx' = langIdx + 1
    /\ UNCHANGED << timeoutEnv, mainPc, mainOut, signalled, call, callerVars, errCh,
                    workerPc, workerErr, runsVars, detectedLangs, hist >>

\* the loop is over: return nil
CachingDone ==
    /\ ProcessAlive
    /\ workerPc = "versions"
    /\ langIdx > Len(detectedLangs)
    /\ workerErr' = "none"
    /\ workerPc' = AfterStage("caching", "none")
    /\ hist' = HistReturn(hist, "caching", "none")
    /\ UNCHANGED << mainVars, callerVars, errCh, report, runsVars, cachingVars >>

(***************************************************************************)
(* Structure analysis, cost tips and the deferred send                     *)
(***************************************************************************)

\* the workflow file is fetched again; a failed fetch skips the analysis
StructureStage ==
    /\ ProcessAlive
    /\ workerPc = "structure"
    /\ \E outcome \in FileOutcomes(ctxErr) :
          /\ \/ /\ outcome = "ok"
                /\ \E content \in WorkflowFiles :
                      report' = [report EXCEPT
                                    !.WorkflowAnalysis =
                                        << analyzeWorkflowStructure(content) >>]
             \/ /\ outcome # "ok"
                /\ report' = report
          /\ hist' = HistReturn([hist EXCEPT !.structureFetch = outcome],
                                "structure", "none")
    /\ workerPc' = AfterStage("structure", "none")
    /\ UNCHANGED << mainVars, callerVars, errCh, workerErr, runsVars, cachingVars >>

CostTips ==
    /\ ProcessAlive
    /\ workerPc = "tips"
    /\ report' = [report EXCEPT
                    !.CostSavingTips = generateCostSavingTips(report.TotalExecutionTime)]
    /\ workerPc' = AfterStage("tips", "none")
    /\ hist' = HistReturn(hist, "tips", "none")
    /\ UNCHANGED << mainVars, callerVars, errCh, workerErr, runsVars, cachingVars >>

\* defer func() { errCh <- err }(): a parked receiver is woken by the send
WorkerSend ==
    /\ ProcessAlive
    /\ workerPc = "send"
    /\ Len(errCh) < ErrChCap
    /\ errCh' = Append(errCh, workerErr)
    /\ workerPc' = "done"
    /\ IF callerPc = "parked"
       THEN callerPc' = "woken" /\ wokenBy' = "errCh"
       ELSE UNCHANGED << callerPc, wokenBy >>
    /\ hist' = [hist EXCEPT !.sends = @ + 1]
    /\ UNCHANGED << mainVars, timeout, ctxErr, result, workerErr, report, runsVars,
                    cachingVars >>

(***************************************************************************)
(* Analyze: the caller's side                                              *)
(***************************************************************************)

\* context.WithTimeout(ctx, timeout): a cancelled parent cancels the child at
\* once; a deadline that is not in the future does so with DeadlineExceeded
NewCtxErr(parentCancelled, d) ==
    IF parentCancelled THEN "Canceled"
    ELSE IF DurationIsNegative(d) \/ DurationIsZero(d) THEN "DeadlineExceeded"
    ELSE "none"

\* case err := <-errCh
SelectErrResult(err) ==
    IF err # "none"
    THEN [report |-> Nil, err |-> "analysis failed"]
    ELSE [report |-> "report", err |-> "none"]

\* a ctx.Done case that hands the report out together with the error
SelectDoneResultWithReport(cerr) ==
    IF cerr = "DeadlineExceeded"
    THEN [report |-> "report", err |-> "analysis timed out"]
    ELSE [report |-> "report", err |-> "context canceled"]

\* case <-ctx.Done()
SelectDoneResult(cerr) ==
    IF cerr = "DeadlineExceeded"
    THEN [report |-> Nil, err |-> "analysis timed out"]
    ELSE [report |-> Nil, err |-> "context canceled"]

\* main calls Analyze: the timeout is parsed, ctx and the report are made
\* and the goroutine is started
AnalyzeEnter ==
    /\ mainPc = "start"
    /\ mainPc' = "analyzing"
    /\ timeout' = ParseTimeout(timeoutEnv)
    /\ ctxErr' = NewCtxErr(signalled, ParseTimeout(timeoutEnv))
    /\ report' = NewReport
    /\ errCh' = << >>
    /\ callerPc' = "select"
    /\ workerPc' = FirstStage
    /\ retries' = InitialRetries
    /\ allRuns' = << >>
    /\ hist' = [hist EXCEPT
                  !.started = << FirstStage >>,
                  !.ctxCause = IF signalled THEN "signal"
                               ELSE IF NewCtxErr(signalled, ParseTimeout(timeoutEnv)) # "none"
                                    THEN "deadline" ELSE "none",
                  !.doneBeforeSend = NewCtxErr(signalled, ParseTimeout(timeoutEnv)) # "none"]
    /\ UNCHANGED << timeoutEnv, mainOut, signalled, call, catalog, wokenBy, result, workerErr,
                    runs, runIdx, totalTime, cachingVars >>

\* the ctx of a running Analyze becomes done: a parked caller is woken by it
CtxDone(cerr, cause) ==
    /\ ctxErr' = cerr
    /\ IF callerPc = "parked"
       THEN callerPc' = "woken" /\ wokenBy' = "done"
       ELSE UNCHANGED << callerPc, wokenBy >>
    /\ hist' = [hist EXCEPT !.ctxCause = cause,
                            !.doneBeforeSend = (workerPc # "done")]

\* the timer of context.WithTimeout fires
DeadlineFire ==
    /\ ProcessAlive
    /\ callerPc \in { "select", "parked", "woken" }
    /\ ctxErr = "none"
    /\ CtxDone("DeadlineExceeded", "deadline")
    /\ UNCHANGED << mainVars, timeout, errCh, result, workerPc, workerErr, report,
                    runsVars, cachingVars >>

\* SIGINT or SIGTERM: the signal goroutine of main cancels main's ctx, which
\* cancels the ctx of Analyze derived from it
Signal ==
    /\ ProcessAlive
    /\ ~signalled
    /\ signalled' = TRUE
    /\ IF callerPc \in { "select", "parked", "woken" } /\ ctxErr = "none"
       THEN CtxDone("Canceled", "signal")
       ELSE UNCHANGED << ctxErr, callerPc, wokenBy, hist >>
    /\ UNCHANGED << timeoutEnv, mainPc, mainOut, call, catalog, timeout, errCh, result,
                    workerPc, workerErr, report, runsVars, cachingVars >>

\* Analyze returns res through select case via; defer cancel() runs
AnalyzeReturn(res, via) ==
    /\ result' = res
    /\ callerPc' = "returned"
    /\ wokenBy' = "none"
    /\ ctxErr' = IF ctxErr = "none" THEN "Canceled" ELSE ctxErr
    /\ hist' = [hist EXCEPT !.returnedVia = via,
                            !.ctxCause = IF ctxErr = "none" THEN "return" ELSE @]

\* the select statement is reached: a ready case is taken, one of them when
\* both are ready; with none ready the caller parks on both channels
CallerSelect ==
    /\ callerPc = "select"
    /\ \/ /\ errCh # << >>
          /\ AnalyzeReturn(SelectErrResult(Head(errCh)), "errCh")
          /\ errCh' = Tail(errCh)
       \/ /\ ctxErr # "none"
          /\ AnalyzeReturn(SelectDoneResult(ctxErr), "done")
          /\ errCh' = errCh
       \/ /\ errCh = << >>
          /\ ctxErr = "none"
          /\ callerPc' = "parked"
          /\ UNCHANGED << wokenBy, ctxErr, result, errCh, hist >>
    /\ UNCHANGED << mainVars, timeout, workerPc, workerErr, report, runsVars,
                    cachingVars >>

\* the parked caller runs again, in the case that woke it
CallerWake ==
    /\ callerPc = "woken"
    /\ \/ /\ wokenBy = "errCh"
          /\ AnalyzeReturn(SelectErrResult(Head(errCh)), "errCh")
          /\ errCh' = Tail(errCh)
       \/ /\ wokenBy = "done"
          /\ AnalyzeReturn(SelectDoneResult(ctxErr), "done")
          /\ errCh' = errCh
    /\ UNCHANGED << mainVars, timeout, workerPc, workerErr, report, runsVars,
                    cachingVars >>

(***************************************************************************)
(* main, after Analyze has returned                                        *)
(***************************************************************************)

\* if err != nil { if ctx.Err() != nil {...} ... }: what main logs
MainErrorOut(parentCancelled) == IF parentCancelled THEN "cancelled" ELSE "failed"

\* log.Fatal on an error
MainFail ==
    /\ mainPc = "analyzing"
    /\ callerPc = "returned"
    /\ result.err # "none"
    /\ mainOut' = MainErrorOut(signalled)
    /\ mainPc' = "exited"
    /\ UNCHANGED << timeoutEnv, signalled, call, catalog, callerVars, errCh, workerPc,
                    workerErr, report, runsVars, cachingVars, hist >>

\* report.Output(); GITHUB_OUTPUT may be unset or the file may not open
MainOutput ==
    /\ mainPc = "analyzing"
    /\ callerPc = "returned"
    /\ result.err = "none"
    /\ report' = Output(report)
    /\ \E written \in BOOLEAN : mainOut' = IF written THEN "output" ELSE "output failed"
    /\ mainPc' = "exited"
    /\ UNCHANGED << timeoutEnv, signalled, call, catalog, callerVars, errCh, workerPc,
                    workerErr, runsVars, cachingVars, hist >>

(***************************************************************************)
(* The specification                                                       *)
(***************************************************************************)

Next ==
    \/ AnalyzeEnter
    \/ DeadlineFire
    \/ Signal
    \/ CallerSelect
    \/ CallerWake
    \/ MainFail
    \/ MainOutput
    \/ ListWorkflowRuns
    \/ RetrySleep
    \/ RunsListed
    \/ FetchJobLogs
    \/ RunsAnalyzed
    \/ DockerStage
    \/ CachingFetch
    \/ ResolveVersion
    \/ CachingDone
    \/ StructureStage
    \/ CostTips
    \/ WorkerSend

Spec == Init /\ [][Next]_vars


(***************************************************************************)
(* The functions of the package, each called on its own                    *)
(***************************************************************************)

\* every variable but call
pipelineVars ==
    << timeoutEnv, mainPc, mainOut, signalled, callerPc, wokenBy, timeout, ctxErr,
       errCh, result, workerPc, workerErr, report, retries, allRuns, runs, runIdx,
       totalTime, detectedLangs, langIdx, hist >>

\* a call of fn that has not run yet
NewCall(fn, in) == [fn |-> fn, in |-> in, out |-> << >>, done |-> FALSE]

\* the call returns out
Return(out) == call' = [call EXCEPT !.out = out, !.done = TRUE]

\* workflow texts given to detectLanguagesFromWorkflow
DetectTexts ==
    { "", "name: ci", "gopher category", "run: go build ./...", "RUN: GO TEST",
      "uses: actions/setup-node@v4\nrun: NPM ci", "Pip install -r requirements.txt",
      "run: mvn -B verify && gradle build", "bundle exec rake",
      "cargo test && dotnet build",
      "uses: ruby/setup-ruby@v1\nuses: actions/SETUP-GO@v5\nrun: yarn" }

\* iteration orders of the map languagePatterns
DetectOrders ==
    KeyOrders \cup { << "python", "go", "dotnet", "node", "rust", "java", "ruby" >> }

DetectCalls ==
    { NewCall("detectLanguagesFromWorkflow", [content |-> c, order |-> o]) :
        c \in DetectTexts, o \in DetectOrders }

CallDetectLanguages ==
    /\ call.fn = "detectLanguagesFromWorkflow"
    /\ ~call.done
    /\ Return(detectLanguagesFromWorkflow(call.in.content, call.in.order))
    /\ UNCHANGED << pipelineVars, catalog >>

\* ecosystem ids given to GetLatestVersion: the supported ones and others
VersionLangs ==
    { "go", "node", "python", "java", "ruby", "rust", "dotnet", "php", "" }

\* tag names of the latest release
ReleaseTags ==
    { "", "go1", "go1.24.0", "go1.25.3", "go1.25rc1", "weekly.2009-11-06",
      "v18.19.1", "v20.11.0", "v22.1.0", "v21.0.0-nightly20230101", "v23",
      "v3.13.0", "v3.13.0a1", "v3.14.0rc2", "v3_13",
      "jdk-21.0.1+12", "jdk-17", "v3.4.0-preview1", "v8.0.1", "v9.0.0-rc.1" }

\* what GetLatestRelease returns: an error or a release with a tag
Releases ==
    { [ok |-> FALSE, tag |-> ""] } \cup { [ok |-> TRUE, tag |-> t] : t \in ReleaseTags }

VersionCalls ==
    { NewCall("GetLatestVersion", [lang |-> l, release |-> r]) :
        l \in VersionLangs, r \in Releases }

CallGetLatestVersion ==
    /\ call.fn = "GetLatestVersion"
    /\ ~call.done
    /\ Return(GetLatestVersion(call.in.lang, call.in.release))
    /\ UNCHANGED << pipelineVars, catalog >>

\* lists of detected languages given to the loop of analyzeCaching
LoopLangs ==
    { << >>, << "go" >>, << "php" >>, << "php", "go" >>, << "node", "php", "rust" >>,
      << "python", "java" >> }

\* what the lookups of one run of the loop return
LoopReleases ==
    { [ok |-> FALSE, tag |-> ""], [ok |-> TRUE, tag |-> "go1.25.3"],
      [ok |-> TRUE, tag |-> "v3.13.0"] }

CachingCalls ==
    { NewCall("analyzeCaching",
              [langs |-> ls, releases |-> [i \in 1..Len(ls) |-> r], round |-> 1]) :
        ls \in LoopLangs, r \in LoopReleases }

CallCachingLoop ==
    /\ call.fn = "analyzeCaching"
    /\ ~call.done
    /\ Return(CachingLoop(call.in.langs, call.in.releases, << >>))
    /\ catalog' = CatalogAfterLoop(catalog, call.in.langs, call.in.releases)
    /\ UNCHANGED pipelineVars

\* the analyses of one process
MaxAnalyses == 2

\* the next analysis of the same process starts
NextAnalysis ==
    /\ call.fn = "analyzeCaching"
    /\ call.done
    /\ call.in.round < MaxAnalyses
    /\ \E next \in CachingCalls : call' = [next EXCEPT !.in.round = call.in.round + 1]
    /\ UNCHANGED << pipelineVars, catalog >>

\* the static table of latest versions
latestVersions == [go |-> "1.24", node |-> "20", python |-> "3.12"]

\* the patterns of detectOutdatedVersion: a literal, an optional character,
\* then the group ([\d\.]+)
versionPatterns ==
    [go     |-> [lit |-> "go version go", opt |-> ""],
     node   |-> [lit |-> "node ", opt |-> "v"],
     python |-> [lit |-> "python", opt |-> "-"]]

\* a character of the class [\d\.]
IsVersionChar(c) == IsDigit(c) \/ c = "."

\* where the group starts when the pattern matches at i, 0 when it does not
GroupStart(logs, i, pattern) ==
    LET a == i + Len(pattern.lit)
        start == IF pattern.opt # "" /\ a <= Len(logs) /\ SubSeq(logs, a, a) = pattern.opt
                 THEN a + 1 ELSE a
    IN  IF /\ SubSeq(logs, i, a - 1) = pattern.lit
           /\ start <= Len(logs)
           /\ IsVersionChar(SubSeq(logs, start, start))
        THEN start ELSE 0

\* regexp.FindStringSubmatch: the leftmost match and its group, the group
\* taking as many characters as it can; << >> when nothing matches
FindStringSubmatch(logs, pattern) ==
    LET at == { i \in Occurrences(logs, pattern.lit) : GroupStart(logs, i, pattern) # 0 }
    IN  IF at = {} THEN << >>
        ELSE LET i == CHOOSE k \in at : \A j \in at : k <= j
                 start == GroupStart(logs, i, pattern)
                 end == CHOOSE e \in start..Len(logs) :
                           /\ \A k \in start..e : IsVersionChar(SubSeq(logs, k, k))
                           /\ e = Len(logs) \/ ~IsVersionChar(SubSeq(logs, e + 1, e + 1))
             IN  << SubSeq(logs, i, end), SubSeq(logs, start, end) >>

MajorIsOlderOrEqual(currentMajor, latestMajor) ==
    currentMajor.ok /\ latestMajor.ok /\ currentMajor.val <= latestMajor.val

\* err1 == nil && err2 == nil && currentMajor < latestMajor
MajorIsOlder(currentMajor, latestMajor) ==
    currentMajor.ok /\ latestMajor.ok /\ currentMajor.val < latestMajor.val

detectOutdatedVersion(logs, lang) ==
    IF lang \in DOMAIN versionPatterns
    THEN LET matches == FindStringSubmatch(logs, versionPatterns[lang])
         IN  IF Len(matches) > 1
             THEN LET current == Split(matches[2], ".")
                      latest == Split(latestVersions[lang], ".")
                  IN  IF Len(current) > 0 /\ Len(latest) > 0
                      THEN MajorIsOlder(Atoi(current[1]), Atoi(latest[1]))
                      ELSE FALSE
             ELSE FALSE
    ELSE FALSE

\* logs detectOutdatedVersion is called on
VersionLogs ==
    { "", "go version go1.22.1 linux/amd64", "go version go0.9", "go version gotip",
      "node v18.19.0", "node 20.11.0", "using node v21.1.0", "node vX then node v16.0.0",
      "node v18 and node v22", "setup node version", "Python 3.8; python-2.7.18",
      "python3.12.1", "python-.5", "python-", "python4..1 python2" }

OutdatedLangs == { "go", "node", "python", "ruby", "" }

OutdatedCalls ==
    { NewCall("detectOutdatedVersion", [logs |-> l, lang |-> g]) :
        l \in VersionLogs, g \in OutdatedLangs }

CallDetectOutdatedVersion ==
    /\ call.fn = "detectOutdatedVersion"
    /\ ~call.done
    /\ Return(detectOutdatedVersion(call.in.logs, call.in.lang))
    /\ UNCHANGED << pipelineVars, catalog >>

\* logs analyzeSteps is called on
StepLogs ==
    { "", "plain text", "##[group]Build", "##[group]Build\n##[group]Test",
      "##[group]Build\ncompiling\n##[group]Test\n##[group]Post",
      "##[group]\n##[group]Test\n##[group]Post",
      "run ##[group]Build\nok\n##[group]Test\n" }

\* what time.Since reads at the steps closed in one call
StepElapsed == { << a, b >> : a, b \in ElapsedChoices }

StepsCalls ==
    { NewCall("analyzeSteps", [logs |-> l, elapsed |-> e]) :
        l \in StepLogs, e \in StepElapsed }

CallAnalyzeSteps ==
    /\ call.fn = "analyzeSteps"
    /\ ~call.done
    /\ Return(analyzeSteps(call.in.logs, call.in.elapsed))
    /\ UNCHANGED << pipelineVars, catalog >>

RECURSIVE DedupLoop(_, _, _)
DedupLoop(recommendations, seen, kept) ==
    IF recommendations = << >> THEN kept
    ELSE LET rec == recommendations[1]
             key == rec.Path \o rec.Description
         IN  IF key \notin seen
             THEN DedupLoop(Tail(recommendations), seen \cup { key }, Append(kept, rec))
             ELSE DedupLoop(Tail(recommendations), seen, kept)

deduplicateCacheRecommendations(recommendations) ==
    DedupLoop(recommendations, {}, << >>)

\* the longest list deduplicateCacheRecommendations is called on
MaxRecs == 3

\* recommendations to deduplicate
DedupRecs ==
    [Path : { "vendor", "vendor/bundle" }, Description : { "/bundle cache", " cache" },
     Impact : { "" }, Example : { "first", "second" }]

DedupCalls ==
    { NewCall("deduplicateCacheRecommendations", [recommendations |-> rs]) :
        rs \in UNION { [1..n -> DedupRecs] : n \in 0..MaxRecs } }

CallDeduplicate ==
    /\ call.fn = "deduplicateCacheRecommendations"
    /\ ~call.done
    /\ Return(deduplicateCacheRecommendations(call.in.recommendations))
    /\ UNCHANGED << pipelineVars, catalog >>

\* the longest list of slow steps calculateMetrics is called on
MaxSlowSteps == 3

\* the slow steps of a report, their ExecutionTime a time.Duration
MetricSteps ==
    [Name : { "Build", "Tests FAILED", "deploy failed" }, ExecutionTime : { 0, 7, 10 },
     IsSlowStep : { TRUE }]

MetricsCalls ==
    { NewCall("calculateMetrics", [SlowSteps |-> ss]) :
        ss \in UNION { [1..n -> MetricSteps] : n \in 0..MaxSlowSteps } }

CallCalculateMetrics ==
    /\ call.fn = "calculateMetrics"
    /\ ~call.done
    /\ Return(calculateMetrics(call.in.SlowSteps))
    /\ UNCHANGED << pipelineVars, catalog >>

\* Dockerfiles analyzeDockerfile is called on
DockerTexts ==
    { "", "RUN make", "FROM alpine\nRUN apk add x",
      "FROM golang:1.22 AS build\nRUN go build\nFROM scratch\nCOPY --from=build /app /app",
      "FROM golang:1.22 AS build\nFROM alpine\nCOPY . .",
      "FROM alpine\n# built FROM source\nRUN make",
      "FROM alpine\n# no COPY --from here\nCOPY . ." }

DockerCalls == { NewCall("analyzeDockerfile", [content |-> c]) : c \in DockerTexts }

CallAnalyzeDockerfile ==
    /\ call.fn = "analyzeDockerfile"
    /\ ~call.done
    /\ Return(analyzeDockerfile(call.in.content))
    /\ UNCHANGED << pipelineVars, catalog >>

InitCalls ==
    /\ timeoutEnv = ""
    /\ mainPc = "start"
    /\ mainOut = "none"
    /\ signalled = FALSE
    /\ callerPc = "idle"
    /\ wokenBy = "none"
    /\ timeout = << >>
    /\ ctxErr = "none"
    /\ errCh = << >>
    /\ result = [report |-> Nil, err |-> "none"]
    /\ workerPc = "idle"
    /\ workerErr = "none"
    /\ report = NewReport
    /\ retries = 0
    /\ allRuns = << >>
    /\ runs = << >>
    /\ runIdx = 0
    /\ totalTime = 0
    /\ detectedLangs = << >>
    /\ langIdx = 0
    /\ hist = NewHist
    /\ catalog = cacheStrategies
    /\ \/ call \in DetectCalls
       \/ call \in VersionCalls
       \/ call \in CachingCalls
       \/ call \in OutdatedCalls
       \/ call \in StepsCalls
       \/ call \in DedupCalls
       \/ call \in MetricsCalls
       \/ call \in DockerCalls

NextCalls ==
    \/ CallDetectLanguages
    \/ CallGetLatestVersion
    \/ CallCachingLoop
    \/ NextAnalysis
    \/ CallDetectOutdatedVersion
    \/ CallAnalyzeSteps
    \/ CallDeduplicate
    \/ CallCalculateMetrics
    \/ CallAnalyzeDockerfile

SpecCalls == InitCalls /\ [][NextCalls]_vars

(***************************************************************************)
(* Properties                                                              *)
(***************************************************************************)

Returned == callerPc = "returned"

TimedOut == [report |-> Nil, err |-> "analysis timed out"]

Cancelled == [report |-> Nil, err |-> "context canceled"]

\* C1: when the deadline elapses before the pipeline has completed, Analyze
\* returns no report and the 'analysis timed out' error, never 'analysis
\* failed' and never a report, whatever the worker sends afterwards
C1_DeadlineGivesTimeout ==
    (Returned /\ hist.ctxCause = "deadline" /\ hist.doneBeforeSend) => result = TimedOut

\* C2: when the signal cancels ctx before the pipeline result and before the
\* deadline, Analyze returns no report and the cancellation error and main
\* logs 'Analysis cancelled'; main never logs it without a signal
C2_SignalGivesCancelled ==
    /\ (Returned /\ hist.ctxCause = "signal" /\ hist.doneBeforeSend) => result = Cancelled
    /\ (mainPc = "exited" /\ hist.ctxCause = "signal" /\ hist.doneBeforeSend)
            => mainOut = "cancelled"
    /\ mainOut = "cancelled" => signalled

\* C3: Analyze returns either a report and no error or no report and an
\* error; once a stage has returned an error it is the last stage entered,
\* the worker goes to its send, and Analyze returns no report and an error
C3_ReportOrError ==
    /\ Returned => \/ result.report = "report" /\ result.err = "none"
                   \/ result.report = Nil /\ result.err # "none"
    /\ hist.stageErrs # { } =>
          /\ hist.stageErrs = { hist.started[Len(hist.started)] }
          /\ hist.returned = hist.started
          /\ workerPc \in { "send", "done" }
          /\ workerErr # "none"
          /\ Returned => result.report = Nil /\ result.err # "none"

\* C3: the run-history stage has failed and Analyze has returned its failure
C3_Witness ==
    /\ Returned
    /\ hist.stageErrs = { "runs" }
    /\ hist.started = << "runs" >>
    /\ result = [report |-> Nil, err |-> "analysis failed"]

\* C4: GetWorkflowRuns returns no error; when all its attempts failed the
\* runs are empty, no job log is fetched, no slow step is reported, the total
\* execution time is 0 and the run-history stage returns no error
C4_ListNeverFails ==
    /\ hist.listErr \in { "unset", "none" }
    /\ hist.listAllFailed =>
          /\ runs = << >>
          /\ hist.logFetches = 0
          /\ report.SlowSteps = << >>
          /\ report.TotalExecutionTime = 0
          /\ "runs" \notin hist.stageErrs

\* C4: every list attempt failed and Analyze returned a report
C4_Witness ==
    /\ hist.listAllFailed
    /\ Returned
    /\ result = [report |-> "report", err |-> "none"]
    /\ "tips" \in { hist.returned[i] : i \in 1..Len(hist.returned) }

\* what is left of the retry loop: it falls with every step of the loop
C5_Measure ==
    IF workerPc = "runs" THEN 2 * retries
    ELSE IF workerPc = "sleep" THEN 2 * retries - 1
    ELSE 0

\* C5: a call of GetWorkflowRuns makes at most 3 list attempts and none after
\* a successful one, sleeps 2 seconds after each failed attempt and after no
\* other, and every step of its loop brings it nearer to its return
C5_BoundedRetry ==
    /\ [](/\ hist.attempts <= 3
          /\ hist.attemptsAfterOk = 0
          /\ hist.okAttempts <= 1
          /\ \A i \in 1..Len(hist.sleeps) : hist.sleeps[i] = 2
          /\ Len(hist.sleeps) = hist.attempts - hist.okAttempts
                                    - (IF workerPc = "sleep" THEN 1 ELSE 0)
          /\ C5_Measure \in 0..6)
    /\ [][(workerPc \in { "runs", "sleep" }
            /\ << workerPc, retries, hist.attempts >>' # << workerPc, retries, hist.attempts >>)
          => C5_Measure' < C5_Measure]_vars

\* C5: the call is about to return after three failed attempts and three sleeps
C5_Witness ==
    /\ workerPc = "listed"
    /\ hist.attempts = 3
    /\ hist.okAttempts = 0
    /\ hist.sleeps = << 2, 2, 2 >>

\* C6: a job-log fetch or a file fetch that fails in the transport makes the
\* stage that issued it return an error and Analyze return an error
C6_TransportFailurePropagates ==
    /\ hist.logFetch = "transport" => "runs" \in hist.stageErrs
    /\ hist.dockerFetch = "transport" => "docker" \in hist.stageErrs
    /\ hist.cachingFetch = "transport" => "caching" \in hist.stageErrs
    /\ (Returned /\ "transport" \in { hist.logFetch, hist.dockerFetch, hist.cachingFetch,
                                      hist.structureFetch })
            => result.err # "none"

AbsentSomewhere ==
    "absent" \in { hist.dockerFetch, hist.cachingFetch, hist.structureFetch }

ExactMinutes(t) == MulLimbs(LimbsOf(t, 8), Minute, 1, 0, 12)

\* C8: the timeout of Analyze is TIMEOUT minutes when TIMEOUT is a positive
\* integer and 60 minutes otherwise
C8_TimeoutFromEnv ==
    timeout # << >> =>
        LET t == Atoi(timeoutEnv)
        IN  /\ ~DurationIsNegative(timeout)
            /\ timeout \o << 0, 0, 0, 0 >>
                    = ExactMinutes(IF t.ok /\ t.val > 0 THEN t.val ELSE 60)

StageOrder == << "runs", "docker", "caching", "structure", "tips" >>

IsPrefix(s, t) == Len(s) <= Len(t) /\ SubSeq(t, 1, Len(s)) = s

\* C9: the stages are entered in the order runs, docker, caching, structure,
\* tips, each after the one before it has returned, and the fourth tip holds
\* the total execution time the run-history stage ended with
C9_FixedOrder ==
    /\ IsPrefix(hist.started, StageOrder)
    /\ IsPrefix(hist.returned, hist.started)
    /\ Len(hist.started) - Len(hist.returned) \in { 0, 1 }
    /\ report.CostSavingTips # << >> =>
          /\ hist.returned = StageOrder
          /\ report.TotalExecutionTime = totalTime
          /\ report.CostSavingTips[4]
                = "Total execution time: " \o DurationString(totalTime)
                    \o " - Consider optimizing long-running steps"

\* C9: all five stages have returned and the total in the tip is not zero
C9_Witness ==
    /\ hist.returned = StageOrder
    /\ totalTime = 13
    /\ report.CostSavingTips[4]
          = "Total execution time: 13m0s - Consider optimizing long-running steps"

\* C10: Analyze returns the report only through the errCh case and only once
\* the worker has sent, that is after its last write; a return through
\* ctx.Done carries no report, and main reads the report only in that case
C10_NoRacingReader ==
    /\ result.report = "report" => workerPc = "done" /\ hist.returnedVia = "errCh"
    /\ hist.returnedVia = "done" => result.report = Nil
    /\ mainOut \in { "output", "output failed" } =>
          workerPc = "done" /\ result.report = "report"

\* C10: Analyze has returned through ctx.Done and the worker is still filling
\* the report
C10_Witness ==
    /\ Returned
    /\ hist.returnedVia = "done"
    /\ result.report = Nil
    /\ workerPc = "tips"
    /\ report # NewReport

\* the recommendations a release lookup that failed on a done ctx would add
GovernedLookupResult(lang) ==
    UpdatedStrategies(StrategiesFor(lang),
                      GetLatestVersion(lang, [ok |-> FALSE, tag |-> ""]).version)

\* C11: once ctx is done the worker makes no wait and no call that ignores
\* it: it does not sleep between list attempts, and a release lookup it
\* still makes fails as a call under ctx does
C11_WorkGovernedByCtx ==
    [][ctxErr # "none" =>
          /\ ~(workerPc = "sleep" /\ retries' # retries)
          /\ (workerPc = "versions" /\ langIdx' # langIdx
                /\ UsesReleaseLookup(detectedLangs[langIdx]))
             => report'.CacheRecommendations
                   = report.CacheRecommendations
                        \o GovernedLookupResult(detectedLangs[langIdx])]_vars

\* C12: the report Analyze returned keeps every field, the metrics and the
\* example of each cache recommendation included, through Output
C12_OutputOnlyReads ==
    [][(callerPc = "returned" /\ result.report = "report") => report' = report]_vars

Elems(seq) == { seq[i] : i \in 1..Len(seq) }

\* a and b are equal up to the case of their letters
EqualFold(a, b) ==
    Len(a) = Len(b) /\ \A i \in 1..Len(a) : LowerChar(SubSeq(a, i, i)) = LowerChar(SubSeq(b, i, i))

\* sub occurs in s up to the case of the letters
OccursFold(s, sub) ==
    \E i \in 1..(Len(s) - Len(sub) + 1) : EqualFold(SubSeq(s, i, i + Len(sub) - 1), sub)

\* the ecosystems one of whose signatures occurs in the text
SignaturesIn(text) ==
    { lang \in DOMAIN languagePatterns :
        \E i \in 1..Len(languagePatterns[lang]) : OccursFold(text, languagePatterns[lang][i]) }

\* C13: detectLanguagesFromWorkflow returns each ecosystem with a signature
\* occurring in the text up to case, once and no other, the same set for
\* every order of the pattern table, and nothing for the empty text
C13_DetectsSignatureSet ==
    (call.fn = "detectLanguagesFromWorkflow" /\ call.done) =>
        /\ Elems(call.out) = SignaturesIn(call.in.content)
        /\ Cardinality(Elems(call.out)) = Len(call.out)
        /\ \A o \in DetectOrders :
              Elems(detectLanguagesFromWorkflow(call.in.content, o)) = Elems(call.out)
        /\ call.in.content = "" => call.out = << >>

\* C13: a text with signatures of three ecosystems in capitals and in small
\* letters has been analysed
C13_Witness ==
    /\ call.fn = "detectLanguagesFromWorkflow"
    /\ call.done
    /\ call.in.content = "uses: ruby/setup-ruby@v1\nuses: actions/SETUP-GO@v5\nrun: yarn"
    /\ Elems(call.out) = { "ruby", "go", "node" }

\* the ecosystems GetLatestVersion has a case for
SupportedLangs == { "go", "node", "python", "java", "ruby", "rust", "dotnet" }

\* the version each ecosystem falls back to
Fallback ==
    [go |-> "1.24", node |-> "20.11", python |-> "3.12", java |-> "17",
     ruby |-> "3.2", dotnet |-> "7.0"]

\* GetLatestVersion has been called for an ecosystem it looks a release up for
Resolved ==
    call.fn = "GetLatestVersion" /\ call.done /\ UsesReleaseLookup(call.in.lang)

\* the examples of the recommendations recs
Examples(recs) == [i \in 1..Len(recs) |-> recs[i].Example]

\* C14: when the release lookup fails GetLatestVersion returns the fallback
\* of the ecosystem and no error, and the loop of analyzeCaching then adds
\* the ecosystem's recommendations, their examples written for the fallback
C14_LookupFailureFallsBack ==
    /\ (Resolved /\ ~call.in.release.ok) =>
          call.out = [version |-> Fallback[call.in.lang], err |-> "none"]
    /\ (call.fn = "analyzeCaching" /\ call.done /\ Len(call.in.langs) = 1
            /\ call.in.langs[1] \in DOMAIN Fallback /\ ~call.in.releases[1].ok) =>
          LET lang == call.in.langs[1]
          IN  /\ call.out.err = "none"
              /\ Len(call.out.recs) = Len(cacheStrategies[lang])
              /\ \A i \in 1..Len(call.out.recs) :
                    call.out.recs[i].Example
                        = SubstFirst(cacheStrategies[lang][i].Example, "%s", Fallback[lang])

\* C14: the lookup for go failed in the loop of analyzeCaching, which added
\* the recommendations of go
C14_Witness ==
    /\ call.fn = "analyzeCaching"
    /\ call.done
    /\ call.in.langs = << "go" >>
    /\ ~call.in.releases[1].ok
    /\ Len(call.out.recs) > 0
    /\ Contains(call.out.recs[1].Example, "1.24")

\* the tag prefix each ecosystem strips
TagPrefix ==
    [go |-> "go", node |-> "v", python |-> "v", java |-> "jdk-", ruby |-> "v",
     dotnet |-> "v"]

\* the parts of the tag of the call, its prefix stripped
TagParts == Split(TrimPrefix(call.in.release.tag, TagPrefix[call.in.lang]), ".")

\* the tag names a nightly build or a pre-release
HasPreReleaseMarker(tag) ==
    \E m \in { "nightly", "rc", "alpha", "beta", "preview" } : Contains(tag, m)

\* the tag has none of the markers any case of GetLatestVersion looks for
Unmarked(tag) ==
    ~HasPreReleaseMarker(tag) /\ \A m \in { "test", "a", "b" } : ~Contains(tag, m)

\* C15: a lookup that succeeds with an unmarked tag of at least two parts
\* makes GetLatestVersion return the first two parts joined by a dot
C15_FirstTwoComponents ==
    (Resolved /\ call.in.release.ok /\ Unmarked(call.in.release.tag) /\ Len(TagParts) >= 2)
        => call.out = [version |-> TagParts[1] \o "." \o TagParts[2], err |-> "none"]

\* two numeric components joined by one dot
IsMajorMinor(v) ==
    LET parts == Split(v, ".")
    IN  Len(parts) = 2 /\ AllDigits(parts[1]) /\ AllDigits(parts[2])

\* C16: for a supported ecosystem GetLatestVersion returns major.minor or
\* 'stable', and the fallback when the tag has fewer than two parts
C16_VersionShape ==
    (call.fn = "GetLatestVersion" /\ call.done /\ call.in.lang \in SupportedLangs) =>
        /\ call.out.version = "stable" \/ IsMajorMinor(call.out.version)
        /\ (UsesReleaseLookup(call.in.lang) /\ call.in.release.ok /\ Len(TagParts) < 2)
              => call.out.version = Fallback[call.in.lang]

\* C17: a tag with a pre-release or nightly marker makes GetLatestVersion
\* return the fallback of the ecosystem
C17_PreReleaseFallsBack ==
    (Resolved /\ call.in.release.ok /\ HasPreReleaseMarker(call.in.release.tag))
        => call.out = [version |-> Fallback[call.in.lang], err |-> "none"]

\* the paths of the strategies of the supported ecosystems among langs
RECURSIVE SupportedPaths(_)
SupportedPaths(langs) ==
    IF langs = << >> THEN << >>
    ELSE (IF langs[1] \in SupportedLangs
          THEN [i \in 1..Len(cacheStrategies[langs[1]]) |-> cacheStrategies[langs[1]][i].Path]
          ELSE << >>)
            \o SupportedPaths(Tail(langs))

\* C18: GetLatestVersion returns an error exactly for an unsupported
\* ecosystem; the loop of analyzeCaching adds nothing for such an ecosystem,
\* adds the strategies of every other one and ends without an error
C18_OnlyUnsupportedErrs ==
    /\ (call.fn = "GetLatestVersion" /\ call.done) =>
          (call.out.err # "none" <=> call.in.lang \notin SupportedLangs)
    /\ (call.fn = "analyzeCaching" /\ call.done) =>
          /\ call.out.err = "none"
          /\ [i \in 1..Len(call.out.recs) |-> call.out.recs[i].Path]
                = SupportedPaths(call.in.langs)

\* C18: the loop of analyzeCaching met an unsupported ecosystem between two
\* supported ones and added the strategies of both
C18_Witness ==
    /\ call.fn = "analyzeCaching"
    /\ call.done
    /\ call.in.langs = << "node", "php", "rust" >>
    /\ Len(call.out.recs) = Len(cacheStrategies.node) + Len(cacheStrategies.rust)
    /\ GetLatestVersion("php", call.in.releases[2]).err # "none"

\* the places <<i, s, e>> of the log where a version of the ecosystem is
\* written: the keyword at i, then the longest run s..e of digits and dots
VersionsWritten(logs, lang) ==
    LET kw == versionPatterns[lang].lit
        opt == versionPatterns[lang].opt
        n == Len(logs)
    IN  { t \in (1..n) \X (1..n) \X (1..n) :
            /\ SubSeq(logs, t[1], t[2] - 1) \in { kw, kw \o opt }
            /\ t[2] <= t[3]
            /\ \A k \in t[2]..t[3] : SubSeq(logs, k, k) \in { Digits[d] : d \in 1..10 } \cup { "." }
            /\ t[3] < n => SubSeq(logs, t[3] + 1, t[3] + 1) \notin { Digits[d] : d \in 1..10 } \cup { "." } }

\* the leading component of the first version written in the log
ObservedMajor(logs, lang) ==
    LET written == VersionsWritten(logs, lang)
        first == CHOOSE t \in written : \A u \in written : t[1] <= u[1]
        dots == { k \in first[2]..first[3] : SubSeq(logs, k, k) = "." }
        stop == IF dots = {} THEN first[3] + 1 ELSE CHOOSE k \in dots : \A j \in dots : k <= j
    IN  SubSeq(logs, first[2], stop - 1)

\* the leading component of the latest version of the ecosystem
LatestMajor == [go |-> 1, node |-> 20, python |-> 3]

\* C19: detectOutdatedVersion answers true exactly when the log writes a
\* version of the ecosystem whose leading component is a number less than
\* the leading component of the latest version
C19_OutdatedIffMajorLess ==
    (call.fn = "detectOutdatedVersion" /\ call.done) =>
        (call.out = TRUE <=>
            /\ call.in.lang \in DOMAIN LatestMajor
            /\ VersionsWritten(call.in.logs, call.in.lang) # {}
            /\ AllDigits(ObservedMajor(call.in.logs, call.in.lang))
            /\ DecimalVal(ObservedMajor(call.in.logs, call.in.lang)) < LatestMajor[call.in.lang])

\* C19: a log with an older and then a newer version of node was flagged
C19_Witness ==
    /\ call.fn = "detectOutdatedVersion"
    /\ call.done
    /\ call.in = [logs |-> "node v18 and node v22", lang |-> "node"]
    /\ call.out = TRUE

\* the lines of the log of the call
StepLines == Split(call.in.logs, "\n")

\* the lines with a boundary marker
Markers == { i \in 1..Len(StepLines) : Contains(StepLines[i], "##[group]") }

\* the named markers that a later marker follows
Followed ==
    { i \in Markers : TrimPrefix(StepLines[i], "##[group]") # "" /\ \E j \in Markers : j > i }

\* C20: analyzeSteps records the named markers that a later marker follows,
\* in order, and nothing else: no marker gives no step and no duration, one
\* marker gives no step, and the last opened step is never recorded
C20_LastStepNeverEmitted ==
    (call.fn = "analyzeSteps" /\ call.done) =>
        /\ Cardinality(Markers) = 0 => call.out = [steps |-> << >>, totalDuration |-> 0]
        /\ Cardinality(Markers) = 1 => call.out.steps = << >>
        /\ Len(call.out.steps) = Cardinality(Followed)
        /\ \A i \in Followed :
              call.out.steps[Cardinality({ j \in Followed : j <= i })].Name
                  = TrimPrefix(StepLines[i], "##[group]")

\* C20: a log of three markers gave two steps, the last one left out
C20_Witness ==
    /\ call.fn = "analyzeSteps"
    /\ call.done
    /\ Cardinality(Markers) = 3
    /\ Len(call.out.steps) = 2
    /\ call.out.steps[2].Name = "Test"
    /\ call.out.totalDuration = 12

\* the lines that start with the boundary marker
Boundaries == { i \in 1..Len(StepLines) : HasPrefix(StepLines[i], "##[group]") }

\* C21: every step analyzeSteps records was opened by a line that starts
\* with the marker and is named by the rest of that line; a line with the
\* marker elsewhere opens no step
C21_MarkerAtLineStart ==
    (call.fn = "analyzeSteps" /\ call.done) =>
        /\ \A k \in 1..Len(call.out.steps) :
              \E i \in Boundaries :
                 call.out.steps[k].Name
                     = SubSeq(StepLines[i], Len("##[group]") + 1, Len(StepLines[i]))
        /\ Len(call.out.steps) < Cardinality(Boundaries) \/ Boundaries = {}

\* C30: a log of k >= 1 marker lines gives k - 1 steps, one for each marker
\* line but the last, in order and whatever follows the marker; the total
\* duration is the sum of the durations of the steps
C30_OneStepPerMarkerButLast ==
    (call.fn = "analyzeSteps" /\ call.done /\ Markers # {}) =>
        /\ Len(call.out.steps) = Cardinality(Markers) - 1
        /\ \A i \in Markers :
              (\E j \in Markers : j > i) =>
                  call.out.steps[Cardinality({ j \in Markers : j <= i })].Name
                      = TrimPrefix(StepLines[i], "##[group]")
        /\ call.out.totalDuration = SumExecutionTime(call.out.steps)

\* the (path, description) pair of a recommendation
PairOf(rec) == << rec.Path, rec.Description >>

\* the places of the input of the call that hold the first recommendation
\* with their pair
FirstOfPair ==
    LET recs == call.in.recommendations
    IN  { i \in 1..Len(recs) : \A j \in 1..(i - 1) : PairOf(recs[j]) # PairOf(recs[i]) }

\* C22: deduplicateCacheRecommendations returns, in input order, the first
\* recommendation of every (path, description) pair of the input, and
\* nothing else
C22_FirstOfEachPairKept ==
    (call.fn = "deduplicateCacheRecommendations" /\ call.done) =>
        /\ Len(call.out) = Cardinality(FirstOfPair)
        /\ \A i \in FirstOfPair :
              call.out[Cardinality({ j \in FirstOfPair : j <= i })] = call.in.recommendations[i]

\* C23: two recommendations that differ in path or in description are both
\* kept by deduplicateCacheRecommendations
C23_DifferentPairsBothKept ==
    (call.fn = "deduplicateCacheRecommendations" /\ call.done) =>
        \A i, j \in 1..Len(call.in.recommendations) :
            PairOf(call.in.recommendations[i]) # PairOf(call.in.recommendations[j]) =>
                \E k, l \in 1..Len(call.out) :
                    /\ k # l
                    /\ PairOf(call.out[k]) = PairOf(call.in.recommendations[i])
                    /\ PairOf(call.out[l]) = PairOf(call.in.recommendations[j])

\* no two entries of the list have the same (path, description) pair
NoDuplicatePairs(recs) ==
    \A i, j \in 1..Len(recs) :
        (recs[i].Path = recs[j].Path /\ recs[i].Description = recs[j].Description) => i = j

\* every entry of the catalog, as << ecosystem, place >>
CatalogEntries ==
    { e \in (DOMAIN cacheStrategies) \X (1..3) : e[2] <= Len(cacheStrategies[e[1]]) }

\* C24: the report a successful Analyze returns has no two cache
\* recommendations with the same (path, description) pair: the detected
\* ecosystems are distinct and no two entries of the catalog share their pair
C24_NoDuplicatePairs ==
    /\ (Returned /\ result.report = "report") => NoDuplicatePairs(report.CacheRecommendations)
    /\ \A i, j \in 1..Len(detectedLangs) : detectedLangs[i] = detectedLangs[j] => i = j
    /\ \A e, f \in CatalogEntries :
          (/\ cacheStrategies[e[1]][e[2]].Path = cacheStrategies[f[1]][f[2]].Path
           /\ cacheStrategies[e[1]][e[2]].Description = cacheStrategies[f[1]][f[2]].Description)
              => e = f

\* C24: Analyze has returned a report with the recommendations of two
\* ecosystems
C24_Witness ==
    /\ Returned
    /\ result.report = "report"
    /\ Len(detectedLangs) = 2
    /\ Len(report.CacheRecommendations)
          = Len(StrategiesFor(detectedLangs[1])) + Len(StrategiesFor(detectedLangs[2]))

\* C25: once the caching stage has returned, no example of the cache
\* recommendations of the report holds an unescaped '${{'
C25_ExamplesLeaveEscaped ==
    (\E k \in 1..Len(hist.returned) : hist.returned[k] = "caching") =>
        \A i \in 1..Len(report.CacheRecommendations) :
            ~Contains(report.CacheRecommendations[i].Example, "${{")

\* the templates the loop of the call meets, each with the version resolved
\* for its ecosystem
RECURSIVE TemplatesMet(_, _)
TemplatesMet(langs, releases) ==
    IF langs = << >> THEN << >>
    ELSE (IF langs[1] \in SupportedLangs
          THEN [i \in 1..Len(cacheStrategies[langs[1]]) |->
                  [template |-> cacheStrategies[langs[1]][i],
                   version |-> GetLatestVersion(langs[1], releases[1]).version]]
          ELSE << >>)
            \o TemplatesMet(Tail(langs), Tail(releases))

\* example is the template with its placeholder replaced by the version
Substituted(example, template, version) ==
    \E n \in 1..(Len(template) - 1) :
        /\ SubSeq(template, n, n + 1) = "%s"
        /\ example = SubSeq(template, 1, n - 1) \o version \o SubSeq(template, n + 2, Len(template))

\* C26: a recommendation of the caching analysis is its template with the
\* version in the place of '%s' when the template has the placeholder, and
\* the template unchanged when it has not; the catalog is the same before and
\* after every analysis
C26_SubstitutesOnCopy ==
    /\ catalog = cacheStrategies
    /\ (call.fn = "analyzeCaching" /\ call.done) =>
          LET met == TemplatesMet(call.in.langs, call.in.releases)
          IN  /\ Len(call.out.recs) = Len(met)
              /\ \A k \in 1..Len(met) :
                    /\ [call.out.recs[k] EXCEPT !.Example = ""]
                          = [met[k].template EXCEPT !.Example = ""]
                    /\ IF \E n \in 1..(Len(met[k].template.Example) - 1) :
                             SubSeq(met[k].template.Example, n, n + 1) = "%s"
                       THEN Substituted(call.out.recs[k].Example, met[k].template.Example,
                                        met[k].version)
                       ELSE call.out.recs[k].Example = met[k].template.Example

\* C26: the second analysis of a process met a template with the placeholder
\* and one without it
C26_Witness ==
    /\ call.fn = "analyzeCaching"
    /\ call.done
    /\ call.in.round = 2
    /\ call.in.langs = << "node", "php", "rust" >>
    /\ call.out.recs[1].Example # cacheStrategies.node[1].Example
    /\ call.out.recs[2].Example = cacheStrategies.node[2].Example
    /\ ~Contains(call.out.recs[1].Example, "%s")
    /\ catalog = cacheStrategies

\* the sum of the durations of the first n steps
RECURSIVE DurationOfFirst(_, _)
DurationOfFirst(steps, n) ==
    IF n = 0 THEN 0 ELSE DurationOfFirst(steps, n - 1) + steps[n].ExecutionTime

\* C27: calculateMetrics stores zeros for an empty list of slow steps and
\* otherwise the number of steps, the largest duration, the sum of the
\* durations divided by the number, which is at most the largest, and the
\* number of steps whose name holds 'failed' in any case of the letters
C27_MetricsOfSlowSteps ==
    (call.fn = "calculateMetrics" /\ call.done) =>
        LET steps == call.in.SlowSteps
            n == Len(steps)
            m == call.out
        IN  IF n = 0
            THEN m = [AverageStepDuration |-> 0, MaxStepDuration |-> 0,
                      TotalSteps |-> 0, FailedSteps |-> 0]
            ELSE /\ m.TotalSteps = n
                 /\ \E i \in 1..n : m.MaxStepDuration = steps[i].ExecutionTime
                 /\ \A i \in 1..n : steps[i].ExecutionTime <= m.MaxStepDuration
                 /\ n * m.AverageStepDuration <= DurationOfFirst(steps, n)
                 /\ DurationOfFirst(steps, n) < n * (m.AverageStepDuration + 1)
                 /\ m.AverageStepDuration <= m.MaxStepDuration
                 /\ m.FailedSteps
                       = Cardinality({ i \in 1..n : OccursFold(steps[i].Name, "failed") })

\* C27: three steps of which two failed, one named in capitals, with an
\* average that the division rounds down
C27_Witness ==
    /\ call.fn = "calculateMetrics"
    /\ call.done
    /\ Len(call.in.SlowSteps) = 3
    /\ call.out = [AverageStepDuration |-> 5, MaxStepDuration |-> 10,
                   TotalSteps |-> 3, FailedSteps |-> 2]
    /\ \E i \in 1..3 : call.in.SlowSteps[i].Name = "Tests FAILED"

\* the lines of the Dockerfile of the call
DockerLines == Split(call.in.content, "\n")

\* the lines that declare a build stage
StageDeclarations == { i \in 1..Len(DockerLines) : HasPrefix(DockerLines[i], "FROM ") }

\* the Dockerfile has a COPY from another stage
HasCrossStageCopy == \E i \in 1..Len(DockerLines) : HasPrefix(DockerLines[i], "COPY --from")

\* C28: analyzeDockerfile reports 'No multi-stage build detected' exactly
\* for a text with fewer than two build-stage declarations, then 'No layer
\* caching strategy detected' exactly for a text with no cross-stage copy,
\* and nothing else
C28_DockerFindings ==
    (call.fn = "analyzeDockerfile" /\ call.done) =>
        [i \in 1..Len(call.out) |-> call.out[i].Issue]
            = (IF Cardinality(StageDeclarations) < 2
               THEN << "No multi-stage build detected" >> ELSE << >>)
              \o (IF ~HasCrossStageCopy
                  THEN << "No layer caching strategy detected" >> ELSE << >>)

\* C29: the worker sends on errCh once, when it ends and not before, and
\* finds room in the channel whenever it is about to send, so the send does
\* not wait for a receiver
C29_OneSendNeverBlocks ==
    /\ hist.sends <= 1
    /\ workerPc = "done" <=> hist.sends = 1
    /\ workerPc = "send" => Len(errCh) < ErrChCap
    /\ (workerPc = "send" /\ ProcessAlive) => ENABLED WorkerSend

\* C29: Analyze returned on the done ctx, and the worker has since made its
\* send, which nobody receives, and ended
C29_Witness ==
    /\ Returned
    /\ hist.returnedVia = "done"
    /\ workerPc = "done"
    /\ hist.sends = 1
    /\ Len(errCh) = 1

====
